---- MODULE Spec2Model ----
(***************************************************************************)
(* A model of marc, a command-line todo manager.                           *)
(*                                                                         *)
(*   src/src/lib.rs  the todo store: TodoList (add_item, rm_item,          *)
(*                   mark_done), the handlers add, rm, done, edit, log     *)
(*                   and the edit mini-parser parse_edit_commands          *)
(*   src/src/cli.rs  the argument parser: the ArgSpec table generated by   *)
(*                   define_args! and CommandLine::parse_args              *)
(*                                                                         *)
(* Strings are sequences of one-character strings, so that starts_with,    *)
(* trim, splitn, lines, strip_prefix, usize parsing and integer formatting *)
(* are computed as the code computes them.                                 *)
(*                                                                         *)
(* Three specifications share the module:                                  *)
(*   Spec      the store: one action per invocation of a handler           *)
(*             (load, operate, save), starting from an empty store         *)
(*   SpecEdit  the editor bridge: serialise, (user edit), re-ingest        *)
(*   SpecCli   the argument parser applied to bounded token sequences      *)
(***************************************************************************)
EXTENDS Integers, Sequences, FiniteSets, TLC

VARIABLES
    file,      \* the persisted TodoList.items (a missing or blank file is <<>>)
    last,      \* the invocation that ran last: its arguments and what it did
    ePc,       \* editor bridge: "start", "serialized", "edited", "parsed"
    eItems,    \* editor bridge: the loaded todo_list.items
    eBuf,      \* editor bridge: the content of the scratch file
    eScript,   \* editor bridge: the directive lines the user typed
    eOut,      \* editor bridge: what parse_edit_commands returned
    cPc,       \* parser: "input", "parsed"
    cCmd,      \* parser: the resolved Subcommand
    cTokens,   \* parser: the tokens after the program name and the subcommand
    cOut,      \* parser: what parse_args returned
    rPc,       \* two processes: "start", "loaded", "exited" for each
    rLast,     \* two processes: what each loaded, its arguments and what it did
    rWrites    \* two processes: the processes that ran save_to_file, in order

vars == <<file, last, ePc, eItems, eBuf, eScript, eOut, cPc, cCmd, cTokens, cOut,
          rPc, rLast, rWrites>>
raceVars == <<rPc, rLast, rWrites>>
storeVars == <<file, last>>
editVars == <<ePc, eItems, eBuf, eScript, eOut>>
cliVars == <<cPc, cCmd, cTokens, cOut>>

(***************************************************************************)
(* Bounds of the model.                                                    *)
(***************************************************************************)
\* the longest TodoList the model lets add and edit build
MaxItems == 2
\* the most hash prefixes one rm or done invocation is given
MaxTargets == 2
\* the most todo texts one add invocation is given
MaxTodos == 2
\* the most directive lines of a user-edited scratch file
MaxLines == 2
\* the most tokens handed to parse_args
MaxTokens == 3

(***************************************************************************)
(* Strings: what the code's str methods compute.                           *)
(***************************************************************************)
\* char::is_whitespace, over the characters the model uses
Whitespace == {" ", "\n", "\t", "\r"}

\* s.trim().is_empty()
IsBlank(s) == \A i \in 1..Len(s) : s[i] \in Whitespace

\* str::starts_with: hash.starts_with(prefix)
starts_with(s, p) == Len(p) <= Len(s) /\ SubSeq(s, 1, Len(p)) = p

\* str::trim: the leading and trailing whitespace removed
RECURSIVE TrimStart(_)
TrimStart(s) ==
    IF s # <<>> /\ Head(s) \in Whitespace THEN TrimStart(Tail(s)) ELSE s

RECURSIVE TrimEnd(_)
TrimEnd(s) ==
    IF s # <<>> /\ s[Len(s)] \in Whitespace
    THEN TrimEnd(SubSeq(s, 1, Len(s) - 1))
    ELSE s

Trim(s) == TrimEnd(TrimStart(s))

\* the positions of the character c in s, in increasing order
Positions(s, c) ==
    LET at == {i \in 1..Len(s) : s[i] = c}
    IN [k \in 1..Cardinality(at) |->
           CHOOSE i \in at : Cardinality({j \in at : j <= i}) = k]

\* s cut at the positions cuts (increasing), the characters there dropped
CutAt(s, cuts) ==
    [k \in 1..(Len(cuts) + 1) |->
        SubSeq(s,
               IF k = 1 THEN 1 ELSE cuts[k - 1] + 1,
               IF k = Len(cuts) + 1 THEN Len(s) ELSE cuts[k] - 1)]

\* str::lines: split at "\n", a trailing "\r" of each line removed, and no
\* last empty line after a final "\n"
StrLines(content) ==
    LET pieces == CutAt(content, Positions(content, "\n"))
        kept == IF pieces[Len(pieces)] = <<>>
                THEN SubSeq(pieces, 1, Len(pieces) - 1)
                ELSE pieces
        strip(l) == IF l # <<>> /\ l[Len(l)] = "\r"
                    THEN SubSeq(l, 1, Len(l) - 1) ELSE l
    IN [i \in 1..Len(kept) |-> strip(kept[i])]

\* str::splitn(n, c): s cut at its first n - 1 occurrences of c, so at most n
\* pieces, the last one holding the rest
SplitN(s, n, c) ==
    LET all == Positions(s, c)
    IN CutAt(s, SubSeq(all, 1, IF Len(all) < n - 1 THEN Len(all) ELSE n - 1))

Digits == <<"0", "1", "2", "3", "4", "5", "6", "7", "8", "9">>

DigitValue(c) == CHOOSE d \in 0..9 : Digits[d + 1] = c

IsDigit(c) == \E d \in 1..10 : Digits[d] = c

\* Display for usize: format!("{}", n)
RECURSIVE FormatUsize(_)
FormatUsize(n) ==
    IF n < 10 THEN <<Digits[n + 1]>>
    ELSE Append(FormatUsize(n \div 10), Digits[(n % 10) + 1])

RECURSIVE DigitsValue(_, _)
DigitsValue(s, acc) ==
    IF s = <<>> THEN acc
    ELSE DigitsValue(Tail(s), acc * 10 + DigitValue(Head(s)))

\* str::parse::<usize>: an optional "+", then one or more decimal digits;
\* [ok, value]. A digit string of more than nine digits either overflows or
\* names a value above every Vec length the model builds: both end in the
\* caller's `_ => continue` arm, and the model reports them as not ok.
ParseUsize(s) ==
    LET body == IF s # <<>> /\ Head(s) = "+" THEN Tail(s) ELSE s
    IN IF body = <<>> \/ \E i \in 1..Len(body) : ~IsDigit(body[i])
       THEN [ok |-> FALSE, value |-> 0]
       ELSE IF Len(body) > 9
       THEN [ok |-> FALSE, value |-> 0]
       ELSE [ok |-> TRUE, value |-> DigitsValue(body, 0)]

\* v.remove(i) of a Vec, 1-based
RemoveAt(s, i) == SubSeq(s, 1, i - 1) \o SubSeq(s, i + 1, Len(s))

\* the concatenation of a sequence of sequences
RECURSIVE Flatten(_)
Flatten(ss) == IF ss = <<>> THEN <<>> ELSE Head(ss) \o Flatten(Tail(ss))

\* all sequences over S of length lo..hi
SeqsOf(S, lo, hi) == UNION {[1..n -> S] : n \in lo..hi}

(***************************************************************************)
(* The todo store: src/src/lib.rs.                                         *)
(***************************************************************************)
\* the length of a TodoItem.hash: format!("{:x}", hash)[..7]
HashLen == 7

\* "default", the tag add_item gives an item added without one
DefaultTag == <<"d", "e", "f", "a", "u", "l", "t">>

\* TodoItem
Item(hash, desc, done, tag) ==
    [hash |-> hash, desc |-> desc, is_completed |-> done, tag |-> tag]

\* What DefaultHasher gives for (desc, tag, the current time in nanoseconds),
\* rendered by format!("{:x}", hash): lowercase hex digits without leading
\* zeros, so 1 to 16 of them. The time is an input of every call; the model
\* draws the rendering from a few values: two that share their first seven
\* digits, one that shares six with them and one that shares none. (A
\* rendering of fewer than seven digits, a hash below 16^6, is not drawn.)
HexRenderings ==
    { <<"a", "1", "b", "2", "c", "3", "d", "4">>,
      <<"a", "1", "b", "2", "c", "3", "d", "9">>,
      <<"a", "1", "b", "2", "c", "3", "e", "0">>,
      <<"7", "f", "0", "0", "a", "1", "b", "2">> }

\* TodoList::generate_short_hash: the first HashLen digits of the rendering;
\* the slice [..7] panics when the rendering is shorter. [ok, hash]
generate_short_hash(hex) ==
    IF Len(hex) < HashLen
    THEN [ok |-> FALSE, hash |-> <<>>]
    ELSE [ok |-> TRUE, hash |-> SubSeq(hex, 1, HashLen)]

\* the indices, in order, of the items whose hash starts with the prefix:
\* the matching_items of rm_item and mark_done
matching_items(items, prefix) ==
    SelectSeq([i \in 1..Len(items) |-> i],
              LAMBDA i : starts_with(items[i].hash, prefix))

\* rm_item taking the first match when several items match
rm_item_first_match(items, prefix) ==
    LET m == matching_items(items, prefix)
    IN IF Len(m) >= 1
       THEN [items |-> RemoveAt(items, m[1]), ret |-> <<items[m[1]]>>]
       ELSE [items |-> items, ret |-> <<>>]

\* TodoList::rm_item: [items, ret]; ret is <<>> for None, <<item>> for Some(item)
rm_item(items, prefix) ==
    LET m == matching_items(items, prefix)
    IN IF Len(m) = 1
       THEN [items |-> RemoveAt(items, m[1]), ret |-> <<items[m[1]]>>]
       ELSE [items |-> items, ret |-> <<>>]

\* mark_done without the test of is_completed
mark_done_again(items, prefix) ==
    LET m == matching_items(items, prefix)
    IN CASE Len(m) = 0 ->
              [items |-> items, kind |-> "NotFound", matches |-> <<>>]
         [] Len(m) = 1 ->
              [items |-> [items EXCEPT ![m[1]].is_completed = TRUE],
               kind |-> "Ok", matches |-> <<>>]
         [] OTHER ->
              [items |-> items, kind |-> "MultipleMatches",
               matches |-> [k \in 1..Len(m) |->
                               <<items[m[k]].hash, items[m[k]].desc>>]]

\* TodoList::mark_done: [items, kind, matches]; kind is "Ok" or the
\* MarkDoneError variant, matches the (hash, desc) pairs of MultipleMatches
mark_done(items, prefix) ==
    LET m == matching_items(items, prefix)
    IN CASE Len(m) = 0 ->
              [items |-> items, kind |-> "NotFound", matches |-> <<>>]
         [] Len(m) = 1 /\ items[m[1]].is_completed ->
              [items |-> items, kind |-> "AlreadyCompleted", matches |-> <<>>]
         [] Len(m) = 1 /\ ~items[m[1]].is_completed ->
              [items |-> [items EXCEPT ![m[1]].is_completed = TRUE],
               kind |-> "Ok", matches |-> <<>>]
         [] OTHER ->
              [items |-> items, kind |-> "MultipleMatches",
               matches |-> [k \in 1..Len(m) |->
                               <<items[m[k]].hash, items[m[k]].desc>>]]

\* TodoList::add_item: the item pushed at the end, with the hash drawn for it
add_item(items, desc, tag, hash) ==
    Append(items, Item(hash, desc, FALSE, IF tag = <<>> THEN DefaultTag ELSE tag[1]))

\* get_flag: the entry after the first entry that is one of the aliases;
\* <<>> for None, <<value>> for Some(value)
get_flag(aliases, args) ==
    LET hits == {i \in 1..Len(args) : args[i] \in aliases}
    IN IF hits = {} THEN <<>>
       ELSE LET pos == CHOOSE i \in hits : \A j \in hits : i <= j
            IN IF pos + 1 <= Len(args) THEN <<args[pos + 1]>> ELSE <<>>

TagShort == <<"-", "t">>
TagLong == <<"-", "-", "t", "a", "g">>

\* What one invocation of a handler did: whether it returned Ok, the error it
\* returned, whether save_to_file ran, the list in memory when it ended, and
\* the calls it made on the TodoList.
Outcome(ok, err, wrote, mem, calls) ==
    [ok |-> ok, err |-> err, wrote |-> wrote, mem |-> mem, calls |-> calls]

\* the loop of add over the todos: add_item for each, and an early return at the
\* first blank one (or a panic of generate_short_hash), before any save
RECURSIVE AddLoop(_, _, _, _, _)
AddLoop(items, todos, tag, hexes, calls) ==
    IF todos = <<>> THEN Outcome(TRUE, "", TRUE, items, calls)
    ELSE IF IsBlank(Head(todos))
    THEN Outcome(FALSE, "empty_todo", FALSE, items, calls)
    ELSE LET h == generate_short_hash(Head(hexes))
         IN IF ~h.ok
            THEN Outcome(FALSE, "panic", FALSE, items, calls)
            ELSE AddLoop(add_item(items, Head(todos), tag, h.hash),
                         Tail(todos), tag, Tail(hexes),
                         Append(calls, [desc |-> Head(todos), hash |-> h.hash]))

\* add, with run's check that an entry follows "add"; hexes holds one hash
\* rendering per call of generate_short_hash
add(loaded, args, hexes) ==
    IF Len(args) < 1 THEN Outcome(FALSE, "usage", FALSE, loaded, <<>>)
    ELSE LET flag == get_flag({TagShort, TagLong}, args)
         IN IF flag = <<>>
            THEN Outcome(FALSE, "tag_requires_value", FALSE, loaded, <<>>)
            ELSE IF flag[1] = <<>>
            THEN Outcome(FALSE, "tag_empty", FALSE, loaded, <<>>)
            ELSE IF Len(args) < 3
            THEN Outcome(FALSE, "no_content", FALSE, loaded, <<>>)
            ELSE AddLoop(loaded, SubSeq(args, 3, Len(args)), flag, hexes, <<>>)

\* how many times add calls generate_short_hash for these args
AddCalls(args) ==
    LET flag == get_flag({TagShort, TagLong}, args)
        todos == SubSeq(args, 3, Len(args))
        blanks == {i \in 1..Len(todos) : IsBlank(todos[i])}
    IN IF flag = <<>> \/ flag[1] = <<>> THEN 0
       ELSE IF blanks = {} THEN Len(todos)
       ELSE (CHOOSE i \in blanks : \A j \in blanks : i <= j) - 1

\* the loop of rm over the prefixes: blank ones skipped, rm_item for the others
RECURSIVE RmLoop(_, _, _)
RmLoop(items, prefixes, calls) ==
    IF prefixes = <<>> THEN Outcome(TRUE, "", TRUE, items, calls)
    ELSE IF IsBlank(Head(prefixes))
    THEN RmLoop(items, Tail(prefixes),
                Append(calls, [prefix |-> Head(prefixes), skipped |-> TRUE,
                               before |-> items, after |-> items, ret |-> <<>>]))
    ELSE LET r == rm_item(items, Head(prefixes))
         IN RmLoop(r.items, Tail(prefixes),
                   Append(calls, [prefix |-> Head(prefixes), skipped |-> FALSE,
                                  before |-> items, after |-> r.items,
                                  ret |-> r.ret]))

\* rm
rm(loaded, prefixes) ==
    IF prefixes = <<>> THEN Outcome(FALSE, "usage", FALSE, loaded, <<>>)
    ELSE IF loaded = <<>> THEN Outcome(FALSE, "no_todos", FALSE, loaded, <<>>)
    ELSE RmLoop(loaded, prefixes, <<>>)

\* the loop of done over the prefixes and its report: completed_count, the
\* number of messages pushed on errors, then the conditional save and result
RECURSIVE DoneLoop(_, _, _, _, _)
DoneLoop(items, prefixes, completed_count, errors, calls) ==
    IF prefixes = <<>>
    THEN Outcome(~(errors > 0 /\ completed_count = 0),
                 IF errors > 0 /\ completed_count = 0 THEN "none_marked" ELSE "",
                 completed_count > 0, items, calls)
    ELSE IF IsBlank(Head(prefixes))
    THEN DoneLoop(items, Tail(prefixes), completed_count, errors + 1,
                  Append(calls, [prefix |-> Head(prefixes), kind |-> "EmptyPrefix",
                                 before |-> items, after |-> items,
                                 matches |-> <<>>]))
    ELSE LET r == mark_done(items, Head(prefixes))
         IN DoneLoop(r.items, Tail(prefixes),
                     IF r.kind = "Ok" THEN completed_count + 1 ELSE completed_count,
                     IF r.kind \in {"NotFound", "AlreadyCompleted"}
                     THEN errors + 1 ELSE errors,
                     Append(calls, [prefix |-> Head(prefixes), kind |-> r.kind,
                                    before |-> items, after |-> r.items,
                                    matches |-> r.matches]))

\* done, with run's check that a hash follows "done"
done(loaded, prefixes) ==
    IF prefixes = <<>> THEN Outcome(FALSE, "usage", FALSE, loaded, <<>>)
    ELSE IF loaded = <<>> THEN Outcome(FALSE, "no_todos", FALSE, loaded, <<>>)
    ELSE DoneLoop(loaded, prefixes, 0, 0, <<>>)


(***************************************************************************)
(* The editor bridge: edit and parse_edit_commands of src/src/lib.rs.      *)
(***************************************************************************)
Pick == <<"p", "i", "c", "k">>
P == <<"p">>
Drop == <<"d", "r", "o", "p">>
D == <<"d">>

\* what one writeln!(temp_file, ...) appends: the text and a line feed
WriteLn(text) == Append(text, "\n")

\* the texts of the writeln! calls after the loop of edit
TrailerLines ==
    <<
      <<"\n", "#", " ", "I", "n", "t", "e", "r", "a", "c", "t", "i", "v",
        "e", " ", "t", "o", "d", "o", " ", "e", "d", "i", "t", "i", "n",
        "g">>,
      <<"#", " ", "C", "o", "m", "m", "a", "n", "d", "s", ":">>,
      <<"#", " ", " ", " ", "p", "i", "c", "k", ",", " ", "p", " ", "<",
        "t", "o", "d", "o", ">", " ", "=", " ", "k", "e", "e", "p", " ",
        "t", "h", "e", " ", "t", "o", "d", "o">>,
      <<"#", " ", " ", " ", "d", "r", "o", "p", ",", " ", "d", " ", "<",
        "t", "o", "d", "o", ">", " ", "=", " ", "r", "e", "m", "o", "v",
        "e", " ", "t", "h", "e", " ", "t", "o", "d", "o">>,
      <<"#", " ", "L", "i", "n", "e", "s", " ", "s", "t", "a", "r", "t",
        "i", "n", "g", " ", "w", "i", "t", "h", " ", "#", " ", "a", "r",
        "e", " ", "i", "g", "n", "o", "r", "e", "d">> >>

\* the scratch file edit writes: "pick <i + 1> <desc>" for each item, in list
\* order, then the comment block
Serialize(items) ==
    Flatten([i \in 1..Len(items) |->
                WriteLn(Pick \o <<" ">> \o FormatUsize(i) \o <<" ">> \o items[i].desc)])
    \o Flatten([k \in 1..Len(TrailerLines) |-> WriteLn(TrailerLines[k])])

\* the loop body keeping an item for the verbs pick and p only
ParseEditLine_pick_only(rawLine, original_items) ==
    LET line == Trim(rawLine)
        parts == SplitN(line, 3, " ")
    IN IF line = <<>> \/ Head(line) = "#" THEN <<>>
       ELSE IF Len(parts) < 2 THEN <<>>
       ELSE LET command == parts[1]
                parsed == ParseUsize(parts[2])
            IN IF ~(parsed.ok /\ parsed.value > 0
                    /\ parsed.value <= Len(original_items))
               THEN <<>>
               ELSE IF command \in {Pick, P} THEN <<original_items[parsed.value]>>
               ELSE <<>>

\* one iteration of the loop of parse_edit_commands: what the line pushes on
\* new_items (<<>> when the line is skipped)
ParseEditLine(rawLine, original_items) ==
    LET line == Trim(rawLine)
        parts == SplitN(line, 3, " ")
    IN IF line = <<>> \/ Head(line) = "#" THEN <<>>
       ELSE IF Len(parts) < 2 THEN <<>>
       ELSE LET command == parts[1]
                parsed == ParseUsize(parts[2])
            IN IF ~(parsed.ok /\ parsed.value > 0
                    /\ parsed.value <= Len(original_items))
               THEN <<>>
               ELSE IF command \in {Drop, D} THEN <<>>
               ELSE <<original_items[parsed.value]>>

\* parse_edit_commands: [ok, items]; no path of it returns Err
parse_edit_commands(content, original_items) ==
    LET lines == StrLines(content)
    IN [ok |-> TRUE,
        items |-> Flatten([k \in 1..Len(lines) |->
                              ParseEditLine(lines[k], original_items)])]

\* A line as the user types it in the editor: leading blanks, a verb, a
\* separator, the index field and the rest of the line. index is the number
\* the index field was typed for, -1 when the field is not a number.
ScriptLine(kind, lead, verb, sep, field, index, rest) ==
    [kind |-> kind, lead |-> lead, verb |-> verb, sep |-> sep,
     field |-> field, index |-> index, rest |-> rest]

\* the text of a typed line
RenderLine(l) ==
    CASE l.kind = "blank" -> l.lead
      [] l.kind = "comment" -> l.lead \o <<"#">> \o l.rest
      [] l.kind = "word" -> l.lead \o l.verb
      [] OTHER -> l.lead \o l.verb \o l.sep \o l.field \o l.rest

\* the content of the scratch file after the user replaced it by these lines
RenderScript(script) ==
    Flatten([k \in 1..Len(script) |-> WriteLn(RenderLine(script[k]))])

\* the steps of edit after the load, in the order of the code: the scratch file
\* is created and written, the editor is started on it, the scratch file is read
\* back, parse_edit_commands runs, save_to_file runs
EditSteps == <<"write_scratch", "spawn_editor", "read_scratch",
               "parse_edit_commands", "save_to_file">>

\* edit that saves what the scratch file holds whatever the editor's exit status
edit_ignores_exit_status(loaded, editor, edited) ==
    IF loaded = <<>> THEN Outcome(FALSE, "no_todos", FALSE, loaded, <<>>)
    ELSE IF editor = "tempfile_error"
    THEN Outcome(FALSE, "tempfile", FALSE, loaded, SubSeq(EditSteps, 1, 1))
    ELSE IF editor = "spawn_error"
    THEN Outcome(FALSE, "editor_spawn", FALSE, loaded, SubSeq(EditSteps, 1, 2))
    ELSE IF editor = "read_error"
    THEN Outcome(FALSE, "read_scratch", FALSE, loaded, SubSeq(EditSteps, 1, 3))
    ELSE LET new_items == parse_edit_commands(edited, loaded)
         IN Outcome(editor = "success", IF editor = "success" THEN "" ELSE "editor_exit",
                    TRUE, new_items.items, EditSteps)

\* edit after the load: editor is what became of the scratch file and the
\* editor process ("tempfile_error": the scratch file could not be created or
\* written, "spawn_error": Command::status failed, "nonzero": the editor exited
\* with an error, "read_error": the scratch file could not be read back,
\* "success"), and edited what the scratch file holds when the editor exits.
\* The calls of the Outcome are the steps that ran.
edit(loaded, editor, edited) ==
    IF loaded = <<>> THEN Outcome(FALSE, "no_todos", FALSE, loaded, <<>>)
    ELSE IF editor = "tempfile_error"
    THEN Outcome(FALSE, "tempfile", FALSE, loaded, SubSeq(EditSteps, 1, 1))
    ELSE IF editor = "spawn_error"
    THEN Outcome(FALSE, "editor_spawn", FALSE, loaded, SubSeq(EditSteps, 1, 2))
    ELSE IF editor = "nonzero"
    THEN Outcome(FALSE, "editor_exit", FALSE, loaded, SubSeq(EditSteps, 1, 2))
    ELSE IF editor = "read_error"
    THEN Outcome(FALSE, "read_scratch", FALSE, loaded, SubSeq(EditSteps, 1, 3))
    ELSE LET new_items == parse_edit_commands(edited, loaded)
         IN Outcome(TRUE, "", TRUE, new_items.items, EditSteps)

(***************************************************************************)
(* The store as a state machine: every action is one invocation of marc,   *)
(* from load_from_file to save_to_file.                                    *)
(***************************************************************************)
DescA == <<"a">>
DescB == <<"b", " ", "c">>
TagW == <<"w">>
Blank == <<" ">>

\* the todo texts given to add
AddTodos == SeqsOf({DescA, DescB, Blank}, 0, MaxTodos)

\* the entries after "add": todos alone, a tag switch (short or long) with its
\* value (or an empty one) before the todos, a tag switch in last position, and
\* a tag switch after the first todo
AddArgLists ==
    AddTodos
    \cup {<<f, v>> \o t : f \in {TagShort, TagLong}, v \in {TagW, <<>>}, t \in AddTodos}
    \cup {<<f>> : f \in {TagShort, TagLong}}
    \cup {<<DescA, f>> : f \in {TagShort, TagLong}}
    \cup {<<DescA, TagShort, Blank>>}

\* the hash prefixes given to rm and done: a first digit two hashes share, full
\* hashes, a first digit of one hash, a digit no hash starts with, and a blank
Prefixes ==
    { <<"a">>,
      <<"a", "1", "b", "2", "c", "3", "d">>,
      <<"a", "1", "b", "2", "c", "3", "e">>,
      <<"7">>,
      <<"b">>,
      Blank }

\* the lines a user leaves in the scratch file: pick or drop of an index
StoreScriptLines ==
    {ScriptLine("directive", <<>>, v, <<" ">>, FormatUsize(n), n, <<>>) :
        v \in {Pick, Drop}, n \in 1..MaxItems}

NoOutcome == Outcome(TRUE, "", FALSE, <<>>, <<>>)

\* no invocation: the process that ran last has exited
NoInvocation == [op |-> "none", args |-> <<>>, pre |-> <<>>, out |-> NoOutcome]

\* One invocation, from load_from_file at the start of the handler to the
\* save_to_file it ran, if it did. Every invocation is a process of its own:
\* the next one starts after the process has exited.
Invoke(op, args, out) ==
    /\ file' = IF out.wrote THEN out.mem ELSE file
    /\ last' = [op |-> op, args |-> args, pre |-> file, out |-> out]
    /\ UNCHANGED <<editVars, cliVars, raceVars>>

Add ==
    /\ last = NoInvocation
    /\ \E args \in AddArgLists :
        \E hexes \in [1..AddCalls(args) -> HexRenderings] :
            LET out == add(file, args, hexes)
            IN /\ Len(out.mem) <= MaxItems
               /\ Invoke("add", args, out)

Rm ==
    /\ last = NoInvocation
    /\ \E prefixes \in SeqsOf(Prefixes, 0, MaxTargets) :
        Invoke("rm", prefixes, rm(file, prefixes))

Done ==
    /\ last = NoInvocation
    /\ \E prefixes \in SeqsOf(Prefixes, 0, MaxTargets) :
        Invoke("done", prefixes, done(file, prefixes))

\* what can become of the scratch file and the editor process of one edit
EditorOutcomes == {"tempfile_error", "spawn_error", "nonzero", "read_error", "success"}

Edit ==
    /\ last = NoInvocation
    /\ \E editor \in EditorOutcomes :
        \E edited \in {Serialize(file)}
                      \cup {RenderScript(sc) : sc \in SeqsOf(StoreScriptLines, 0, MaxLines)} :
            LET out == edit(file, editor, edited)
            IN /\ Len(out.mem) <= MaxItems
               /\ Invoke("edit", <<editor>>, out)

\* log: load and list, nothing written
Log ==
    /\ last = NoInvocation
    /\ Invoke("log", <<>>, Outcome(TRUE, "", FALSE, file, <<>>))

\* the process exits: nothing of the invocation is left but the file
Exit ==
    /\ last # NoInvocation
    /\ last' = NoInvocation
    /\ UNCHANGED <<file, editVars, cliVars, raceVars>>

EditIdle ==
    /\ ePc = "off" /\ eItems = <<>> /\ eBuf = <<>> /\ eScript = <<>> /\ eOut = <<>>

CliIdle ==
    /\ cPc = "off" /\ cCmd = "Help" /\ cTokens = <<>> /\ cOut = <<>>

StoreIdle ==
    /\ file = <<>>
    /\ last = NoInvocation

\* the two processes of the concurrent runs
Procs == {1, 2}

RaceIdle ==
    /\ rPc = [p \in Procs |-> "off"]
    /\ rLast = [p \in Procs |-> NoInvocation]
    /\ rWrites = <<>>

Init == StoreIdle /\ EditIdle /\ CliIdle /\ RaceIdle

Next == Add \/ Rm \/ Done \/ Edit \/ Log \/ Exit

Spec == Init /\ [][Next]_vars

(***************************************************************************)
(* Claims about the store.                                                 *)
(***************************************************************************)
\* the positions of the items whose hash starts with the prefix
Matches(items, prefix) ==
    {i \in 1..Len(items) : starts_with(items[i].hash, prefix)}

\* the calls the last invocation made on the TodoList
Calls == last.out.calls

\* C1: starting from an empty store, after any sequence of add, rm, done and
\* edit, no two items of the TodoList have the same hash.
C1_UniqueHashes ==
    \A i, j \in 1..Len(file) : i # j => file[i].hash # file[j].hash

\* what C2 says of one call of mark_done
MarkDoneAsClaimed(c) ==
    LET n == Cardinality(Matches(c.before, c.prefix))
        only == CHOOSE i \in Matches(c.before, c.prefix) : TRUE
    IN /\ n = 0 => c.kind = "NotFound" /\ c.after = c.before
       /\ (n = 1 /\ c.before[only].is_completed)
            => c.kind = "AlreadyCompleted" /\ c.after = c.before
       /\ (n = 1 /\ ~c.before[only].is_completed)
            => /\ c.kind = "Ok"
               /\ Len(c.after) = Len(c.before)
               /\ \A i \in 1..Len(c.before) :
                    c.after[i] = IF i = only
                                 THEN Item(c.before[i].hash, c.before[i].desc,
                                           TRUE, c.before[i].tag)
                                 ELSE c.before[i]
       /\ n > 1
            => /\ c.kind = "MultipleMatches"
               /\ c.after = c.before
               /\ Len(c.matches) = n
               /\ \A i \in Matches(c.before, c.prefix) :
                    \E k \in 1..n :
                        /\ c.matches[k] = <<c.before[i].hash, c.before[i].desc>>
                        /\ k = Cardinality({j \in Matches(c.before, c.prefix) : j <= i})

\* C2: mark_done(prefix) is decided by the number of items whose hash starts
\* with prefix: none fails with NotFound; one, already completed, fails with
\* AlreadyCompleted; one, not completed, sets only that item's is_completed and
\* succeeds; several fail with MultipleMatches listing the (hash, desc) of every
\* match. A failing call leaves the items unchanged, and a done invocation whose
\* only target is already completed does not write the file.
C2_MarkDone ==
    last.op = "done" =>
        /\ \A k \in 1..Len(Calls) :
              Calls[k].kind # "EmptyPrefix" => MarkDoneAsClaimed(Calls[k])
        /\ (Len(Calls) = 1 /\ Calls[1].kind = "AlreadyCompleted")
              => ~last.out.wrote /\ ~last.out.ok /\ file = last.pre

\* C2's case: a done invocation whose only target is an item already completed
C2_Witness ==
    /\ last.op = "done"
    /\ Len(Calls) = 1
    /\ Cardinality(Matches(last.pre, Calls[1].prefix)) = 1
    /\ \E i \in Matches(last.pre, Calls[1].prefix) : last.pre[i].is_completed
    /\ Calls[1].kind = "AlreadyCompleted"

\* what C3 says of one call of rm_item
RmItemAsClaimed(c) ==
    LET hits == Matches(c.before, c.prefix)
        only == CHOOSE i \in hits : TRUE
    IN /\ c.ret # <<>> <=> Cardinality(hits) = 1
       /\ Cardinality(hits) = 1
            => /\ c.ret = <<c.before[only]>>
               /\ Len(c.after) = Len(c.before) - 1
               /\ \A i \in 1..Len(c.after) :
                    c.after[i] = c.before[IF i < only THEN i ELSE i + 1]
       /\ Cardinality(hits) # 1 => c.after = c.before /\ c.ret = <<>>

\* C3: rm_item(prefix) removes and returns an item if and only if exactly one
\* item's hash starts with prefix, and then every other item keeps its place in
\* the order; with no match or several, the list is unchanged and nothing is
\* returned.
C3_RmItem ==
    last.op = "rm" =>
        \A k \in 1..Len(Calls) : ~Calls[k].skipped => RmItemAsClaimed(Calls[k])

\* C3's case: rm_item with a prefix that two items of different hashes share
C3_Witness ==
    /\ last.op = "rm"
    /\ \E k \in 1..Len(Calls) :
          /\ ~Calls[k].skipped
          /\ \E i, j \in Matches(Calls[k].before, Calls[k].prefix) :
                Calls[k].before[i].hash # Calls[k].before[j].hash
          /\ Calls[k].after = Calls[k].before
          /\ Calls[k].ret = <<>>

\* the targets of the last invocation: the todos of an add (the entries after
\* the tag switch and its value, when it starts with one), the prefixes of rm
\* and done
Targets ==
    IF last.op = "add"
    THEN IF Len(last.args) >= 2 /\ last.args[1] \in {TagShort, TagLong}
         THEN SubSeq(last.args, 3, Len(last.args))
         ELSE last.args
    ELSE last.args

\* how many targets of the last invocation succeeded: the add_item calls, the
\* rm_item calls that removed an item, the mark_done calls that returned Ok
Succeeded ==
    CASE last.op = "add" -> Len(Calls)
      [] last.op = "rm" -> Cardinality({k \in 1..Len(Calls) : Calls[k].ret # <<>>})
      [] last.op = "done" -> Cardinality({k \in 1..Len(Calls) : Calls[k].kind = "Ok"})
      [] OTHER -> 0

\* C4: a batch invocation of add, rm or done with one or more targets returns
\* success if at least one target succeeded, and that target's effect is
\* persisted, and returns failure if every target failed.
C4_BatchOutcome ==
    (last.op \in {"add", "rm", "done"} /\ Len(Targets) >= 1) =>
        /\ last.out.ok <=> Succeeded > 0
        /\ Succeeded > 0 => last.out.wrote /\ file = last.out.mem

\* C5: an add of a non-blank description with no tag option succeeds and
\* appends exactly one item, with tag "default" and is_completed false, after
\* the items that were there, which it leaves as they were.
C5_AddDefaultTag ==
    (/\ last.op = "add"
     /\ Len(last.args) = 1
     /\ ~IsBlank(last.args[1])
     /\ last.args[1] \notin {TagShort, TagLong}) =>
        /\ last.out.ok
        /\ Len(file) = Len(last.pre) + 1
        /\ SubSeq(file, 1, Len(last.pre)) = last.pre
        /\ file[Len(file)].desc = last.args[1]
        /\ file[Len(file)].tag = DefaultTag
        /\ ~file[Len(file)].is_completed

(***************************************************************************)
(* The editor bridge as a state machine: the steps of edit between the     *)
(* load and the save, for a loaded list drawn from a few items.            *)
(***************************************************************************)
\* a todo text with a line feed in it, as `marc add -t w $'a\np 1'` stores it
DescTwoLines == <<"a", "\n", "p", " ", "1">>

\* the items of the loaded list: their hashes, texts and states all differ
EditItems ==
    { Item(<<"a", "1", "b", "2", "c", "3", "d">>, DescA, FALSE, TagW),
      Item(<<"a", "1", "b", "2", "c", "3", "e">>, DescB, TRUE, DefaultTag),
      Item(<<"7", "f", "0", "0", "a", "1", "b">>, DescTwoLines, FALSE, TagW) }

Directive(verb, sep, field, index) ==
    ScriptLine("directive", <<>>, verb, sep, field, index, <<>>)

\* The lines a user leaves in the scratch file: pick of every index from 0 to
\* one past the bound, drop of the indices in range, then for index 1 the short
\* verbs, another verb, a signed field, a field that is no number, two blanks
\* between verb and index, and a line with leading blanks and a text after the
\* index; a blank line, a comment, and a verb alone.
EditScriptLines ==
    {Directive(Pick, <<" ">>, FormatUsize(n), n) : n \in 0..(MaxItems + 1)}
    \cup {Directive(Drop, <<" ">>, FormatUsize(n), n) : n \in 1..MaxItems}
    \cup { Directive(P, <<" ">>, <<"1">>, 1),
           Directive(D, <<" ">>, <<"1">>, 1),
           Directive(<<"x">>, <<" ">>, <<"1">>, 1),
           Directive(Pick, <<" ">>, <<"+", "1">>, 1),
           Directive(Pick, <<" ">>, <<"x">>, -1),
           Directive(Pick, <<" ", " ">>, <<"1">>, 1),
           ScriptLine("directive", <<" ">>, Pick, <<" ">>, <<"1">>, 1, <<" ", "a", " ">>),
           ScriptLine("blank", <<" ">>, <<>>, <<>>, <<>>, -1, <<>>),
           ScriptLine("comment", <<>>, <<>>, <<>>, <<>>, -1, <<" ", "p", " ", "1">>),
           ScriptLine("word", <<>>, Pick, <<>>, <<>>, -1, <<>>) }

EInit ==
    /\ ePc = "loaded"
    /\ eItems \in SeqsOf(EditItems, 1, MaxItems)
    /\ eBuf = <<>>
    /\ eScript = <<>>
    /\ eOut = <<>>

\* edit writes the scratch file
EWrite ==
    /\ ePc = "loaded"
    /\ ePc' = "written"
    /\ eBuf' = Serialize(eItems)
    /\ UNCHANGED <<eItems, eScript, eOut, storeVars, cliVars, raceVars>>

\* the user replaces the content of the scratch file in the editor
EUserEdit ==
    /\ ePc = "written"
    /\ \E script \in SeqsOf(EditScriptLines, 0, MaxLines) :
          /\ eScript' = script
          /\ eBuf' = RenderScript(script)
    /\ ePc' = "edited"
    /\ UNCHANGED <<eItems, eOut, storeVars, cliVars, raceVars>>

\* the editor has exited with success: edit reads the scratch file back and
\* parses it
EParse ==
    /\ ePc \in {"written", "edited"}
    /\ ePc' = IF ePc = "written" THEN "reingested" ELSE "parsed"
    /\ eOut' = parse_edit_commands(eBuf, eItems)
    /\ UNCHANGED <<eItems, eBuf, eScript, storeVars, cliVars, raceVars>>

InitEdit == StoreIdle /\ EInit /\ CliIdle /\ RaceIdle

NextEdit == EWrite \/ EUserEdit \/ EParse

SpecEdit == InitEdit /\ [][NextEdit]_vars

(***************************************************************************)
(* Claims about the editor bridge.                                         *)
(***************************************************************************)
\* the items the typed lines name, in line order: a line names the item at its
\* index when it is a directive with an index in 1..N, a verb other than
\* drop or d, and a separator allowed by seps
Named(script, items, seps) ==
    Flatten([k \in 1..Len(script) |->
        IF /\ script[k].kind = "directive"
           /\ script[k].index \in 1..Len(items)
           /\ script[k].verb \notin {Drop, D}
           /\ script[k].sep \in seps
        THEN <<items[script[k].index]>>
        ELSE <<>>])

C7_RoundTrip ==
    ePc = "reingested" => eOut.ok /\ eOut.items = eItems

(***************************************************************************)
(* The argument parser: src/src/cli.rs.                                    *)
(***************************************************************************)
\* enum Subcommand
Subcommands == {"Add", "Log", "Remove", "Edit", "Help", "Done", "Version"}

\* struct ArgSpec
ArgSpec(name, short, long, kind) ==
    [name |-> name, short |-> short, long |-> long, kind |-> kind]

\* the ArgSpec define_args! puts after every declared argument
HelpSpec == ArgSpec("help", "h", <<"-", "-", "h", "e", "l", "p">>, "Flag")

TagSpec == ArgSpec("tag", "t", <<"t", "a", "g">>, "Option")
DoneSpec == ArgSpec("done", "d", <<"d", "o", "n", "e">>, "Flag")
UndoneSpec == ArgSpec("undone", "u", <<"u", "n", "d", "o", "n", "e">>, "Flag")

\* the arguments the define_args! invocation declares for each subcommand
Declared(cmd) ==
    CASE cmd = "Add" -> <<TagSpec>>
      [] cmd = "Log" -> <<TagSpec, DoneSpec, UndoneSpec>>
      [] cmd = "Remove" -> <<DoneSpec>>
      [] OTHER -> <<>>

\* get_arg_specs_for: the macro repeats the pair (declared ArgSpec, help
\* ArgSpec) once per declared argument
get_arg_specs_for(cmd) ==
    Flatten([k \in 1..Len(Declared(cmd)) |-> <<Declared(cmd)[k], HelpSpec>>])

\* enum Arg
ArgFlag(name) == [type |-> "Flag", name |-> name, value |-> <<>>]
ArgOption(name, value) == [type |-> "Option", name |-> name, value |-> value]
ArgValue(token) == [type |-> "Value", name |-> "", value |-> token]

\* iter().find(|s| s.long == arg_name) on a Vec<&ArgSpec>: <<>> for None,
\* <<spec>> for Some(spec), the first spec in table order
find_long(specs, arg_name) ==
    LET hits == SelectSeq(specs, LAMBDA s : s.long = arg_name)
    IN IF hits = <<>> THEN <<>> ELSE <<hits[1]>>

\* iter().find(|s| s.short == a) on a Vec<&ArgSpec>
find_short(specs, a) ==
    LET hits == SelectSeq(specs, LAMBDA s : s.short = a)
    IN IF hits = <<>> THEN <<>> ELSE <<hits[1]>>

\* str::strip_prefix: <<>> for None, <<rest>> for Some(rest)
strip_prefix(token, prefix) ==
    IF starts_with(token, prefix)
    THEN <<SubSeq(token, Len(prefix) + 1, Len(token))>>
    ELSE <<>>

\* What parse_args has built so far, or the ParseError it returned: pos is the
\* 1-based position of the token at index i, used the positions of the tokens
\* taken as the value of an Option
ParseState(pos, args, used) ==
    [ok |-> TRUE, err |-> "", arg |-> <<>>, pos |-> pos, args |-> args, used |-> used]

ParseFailure(err, arg, st) ==
    [ok |-> FALSE, err |-> err, arg |-> arg, pos |-> st.pos, args |-> st.args,
     used |-> st.used]

\* an Option that takes the next token as its value and leaves i on the switch
TakeValue_value_stays(tokens, spec, arg, st) ==
    IF st.pos + 1 <= Len(tokens)
    THEN ParseState(st.pos,
                    Append(st.args, ArgOption(spec.name, tokens[st.pos + 1])),
                    st.used \cup {st.pos + 1})
    ELSE ParseFailure("Missing", arg, st)

\* an Option found at the token at st.pos: the next token is its value, and i
\* moves past it; Missing(arg) when there is none
TakeValue(tokens, spec, arg, st) ==
    IF st.pos + 1 <= Len(tokens)
    THEN ParseState(st.pos + 1,
                    Append(st.args, ArgOption(spec.name, tokens[st.pos + 1])),
                    st.used \cup {st.pos + 1})
    ELSE ParseFailure("Missing", arg, st)

\* the for loop over the characters of a short cluster; i moves inside it
RECURSIVE ClusterLoop(_, _, _, _, _)
ClusterLoop(tokens, flags, options, chars, st) ==
    IF chars = <<>> THEN st
    ELSE LET a == Head(chars)
             flag == find_short(flags, a)
             opt == find_short(options, a)
         IN IF flag # <<>>
            THEN ClusterLoop(tokens, flags, options, Tail(chars),
                             ParseState(st.pos, Append(st.args, ArgFlag(flag[1].name)),
                                        st.used))
            ELSE IF opt # <<>>
            THEN LET taken == TakeValue(tokens, opt[1], <<a>>, st)
                 IN IF taken.ok
                    THEN ClusterLoop(tokens, flags, options, Tail(chars), taken)
                    ELSE taken
            ELSE ParseFailure("UnknownArg", <<a>>, st)

\* one iteration that resolves the characters of a short cluster from the right
ParseToken_cluster_right_to_left(tokens, flags, options, st) ==
    LET token == tokens[st.pos]
        long == strip_prefix(token, <<"-", "-">>)
        short == strip_prefix(token, <<"-">>)
    IN IF long # <<>>
       THEN LET flag == find_long(flags, long[1])
                opt == find_long(options, long[1])
            IN IF flag # <<>>
               THEN ParseState(st.pos, Append(st.args, ArgFlag(flag[1].name)), st.used)
               ELSE IF opt # <<>>
               THEN TakeValue(tokens, opt[1], long[1], st)
               ELSE ParseFailure("UnknownArg", long[1], st)
       ELSE IF short # <<>>
       THEN ClusterLoop(tokens, flags, options,
                        [c \in 1..Len(short[1]) |-> short[1][Len(short[1]) + 1 - c]], st)
       ELSE ParseState(st.pos, Append(st.args, ArgValue(token)), st.used)

\* one iteration of the while loop of parse_args, before its i += 1
ParseToken(tokens, flags, options, st) ==
    LET token == tokens[st.pos]
        long == strip_prefix(token, <<"-", "-">>)
        short == strip_prefix(token, <<"-">>)
    IN IF long # <<>>
       THEN LET flag == find_long(flags, long[1])
                opt == find_long(options, long[1])
            IN IF flag # <<>>
               THEN ParseState(st.pos, Append(st.args, ArgFlag(flag[1].name)), st.used)
               ELSE IF opt # <<>>
               THEN TakeValue(tokens, opt[1], long[1], st)
               ELSE ParseFailure("UnknownArg", long[1], st)
       ELSE IF short # <<>>
       THEN ClusterLoop(tokens, flags, options, short[1], st)
       ELSE ParseState(st.pos, Append(st.args, ArgValue(token)), st.used)

\* the while loop of parse_args
RECURSIVE ParseLoop(_, _, _, _)
ParseLoop(tokens, flags, options, st) ==
    IF st.pos > Len(tokens) THEN st
    ELSE LET after == ParseToken(tokens, flags, options, st)
         IN IF after.ok
            THEN ParseLoop(tokens, flags, options,
                           ParseState(after.pos + 1, after.args, after.used))
            ELSE after

\* CommandLine::parse_args: [ok, args] for Ok(args), [~ok, err, arg] for
\* Err(ParseError::err(arg))
parse_args(tokens, arg_spec) ==
    ParseLoop(tokens,
              SelectSeq(arg_spec, LAMBDA f : f.kind = "Flag"),
              SelectSeq(arg_spec, LAMBDA o : o.kind = "Option"),
              ParseState(1, <<>>, {}))

(***************************************************************************)
(* The parser applied to the tokens of one command line.                   *)
(***************************************************************************)
\* the token "-" followed by the characters cs
Dash(cs) == <<"-">> \o cs

LongHelp == Dash(Dash(<<"h", "e", "l", "p">>))
ShortHelp == Dash(<<"h">>)

\* The tokens after the subcommand: the long and short switches of the table,
\* the long alias of help as the table holds it behind "--", switches no
\* subcommand has, clusters of short switches, "-" and "--", and a value
CliTokens ==
    { Dash(Dash(TagSpec.long)), Dash(Dash(DoneSpec.long)), Dash(Dash(UndoneSpec.long)),
      LongHelp, Dash(Dash(HelpSpec.long)), Dash(Dash(<<"p", "i", "p", "p", "o">>)),
      Dash(<<"t">>), Dash(<<"d">>), Dash(<<"u">>), ShortHelp, Dash(<<"x">>),
      Dash(<<"u", "d">>), Dash(<<"t", "d">>), Dash(<<"t", "t">>),
      <<"-">>, <<"-", "-">>, <<"v">> }

CInit ==
    /\ cPc = "input"
    /\ cCmd \in Subcommands
    /\ cTokens \in SeqsOf(CliTokens, 0, MaxTokens)
    /\ cOut = <<>>

\* CommandLine::new hands the tokens and the subcommand's table to parse_args
CParse ==
    /\ cPc = "input"
    /\ cPc' = "parsed"
    /\ cOut' = parse_args(cTokens, get_arg_specs_for(cCmd))
    /\ UNCHANGED <<cCmd, cTokens, storeVars, editVars, raceVars>>

InitCli == StoreIdle /\ EditIdle /\ CInit /\ RaceIdle

NextCli == CParse

SpecCli == InitCli /\ [][NextCli]_vars

(***************************************************************************)
(* Claims about the argument parser.                                       *)
(***************************************************************************)
\* C8: for every subcommand the parser accepts the help flag, as --help and as
\* -h, among the argument tokens and emits Flag(help) for it instead of
\* failing with an unknown-argument error.
C8_HelpAccepted ==
    (/\ cPc = "parsed"
     /\ cTokens # <<>>
     /\ \A i \in 1..Len(cTokens) : cTokens[i] \in {LongHelp, ShortHelp}) =>
        /\ cOut.ok
        /\ cOut.args = [i \in 1..Len(cTokens) |-> ArgFlag("help")]

\* a token that begins with a dash
IsSwitchToken(token) == starts_with(token, <<"-">>)

\* a dash token resolves for a subcommand when it is the long form of one of
\* its switches, or a cluster that holds a short switch of it
Resolves(token, specs) ==
    IF starts_with(token, <<"-", "-">>)
    THEN \E k \in 1..Len(specs) : specs[k].long = SubSeq(token, 3, Len(token))
    ELSE \E c \in 2..Len(token) : \E k \in 1..Len(specs) : specs[k].short = token[c]

\* C9: a token that begins with a dash, is not consumed as the value of an
\* Option and does not resolve to a flag or an option of the subcommand makes
\* the parse fail with an unknown-argument error; it is never dropped from a
\* successful result.
C9_UnknownDashFails ==
    cPc = "parsed" =>
        \A i \in 1..Len(cTokens) :
            (/\ i \notin cOut.used
             /\ IsSwitchToken(cTokens[i])
             /\ ~Resolves(cTokens[i], get_arg_specs_for(cCmd)))
            => ~cOut.ok /\ cOut.err = "UnknownArg"

\* the long form of a switch as it is written on the command line ("--tag",
\* "--help"), and its short form ("-t", "-h")
LongForm(spec) ==
    IF starts_with(spec.long, <<"-", "-">>) THEN spec.long ELSE Dash(Dash(spec.long))

ShortForm(spec) == Dash(<<spec.short>>)

\* the same Arg sequence, or the same kind of error
SameOutcome(a, b) ==
    /\ a.ok = b.ok
    /\ a.ok => a.args = b.args
    /\ ~a.ok => a.err = b.err

\* the tokens with the long form of the switch replaced by its short form,
\* wherever it does not stand as the value of an Option
Shortened(tokens, spec, used) ==
    [i \in 1..Len(tokens) |->
        IF tokens[i] = LongForm(spec) /\ i \notin used
        THEN ShortForm(spec) ELSE tokens[i]]

\* C10: for every subcommand and every switch recognized for it, replacing the
\* long form of the switch by its short form gives the same parse outcome: the
\* same Arg sequence or the same kind of error.
C10_LongShortSame ==
    cPc = "parsed" =>
        LET specs == get_arg_specs_for(cCmd)
        IN \A k \in 1..Len(specs) :
              SameOutcome(cOut,
                          parse_args(Shortened(cTokens, specs[k], cOut.used), specs))

\* the parse reached the token at position i and read it as a switch, not as
\* the value of an Option
ReadAsSwitch(i) ==
    /\ i \in 1..Len(cTokens)
    /\ i \notin cOut.used
    /\ cOut.ok \/ cOut.pos >= i

\* the Option specs of the subcommand whose long form is the token
LongOptionsAt(i) ==
    { k \in 1..Len(get_arg_specs_for(cCmd)) :
        /\ get_arg_specs_for(cCmd)[k].kind = "Option"
        /\ cTokens[i] = Dash(Dash(get_arg_specs_for(cCmd)[k].long)) }

\* C11: an Option switch in long form takes exactly the next token, verbatim
\* and even when it starts with a dash, as its value and emits
\* Option{name, value}; the token taken is not parsed again, so the result is
\* the Args of the tokens before the switch, the Option, and the Args of the
\* tokens after the value. When the switch is the last token the parse fails
\* with a missing-value error naming the switch.
C11_LongOptionValue ==
    cPc = "parsed" =>
        \A i \in 1..Len(cTokens) :
            (ReadAsSwitch(i) /\ LongOptionsAt(i) # {}) =>
                LET specs == get_arg_specs_for(cCmd)
                    spec == specs[CHOOSE k \in LongOptionsAt(i) : TRUE]
                    before == parse_args(SubSeq(cTokens, 1, i - 1), specs)
                    after == parse_args(SubSeq(cTokens, i + 2, Len(cTokens)), specs)
                    option == ArgOption(spec.name, cTokens[i + 1])
                IN IF i = Len(cTokens)
                   THEN ~cOut.ok /\ cOut.err = "Missing" /\ cOut.arg = spec.long
                   ELSE /\ before.ok
                        /\ i + 1 \in cOut.used
                        /\ Len(cOut.args) > Len(before.args)
                        /\ cOut.args[Len(before.args) + 1] = option
                        /\ cOut.ok = after.ok
                        /\ cOut.ok => cOut.args = before.args \o <<option>> \o after.args
                        /\ ~cOut.ok => cOut.err = after.err /\ cOut.arg = after.arg

\* a long Option switch whose value starts with a dash, followed by more tokens
C11_Witness ==
    /\ cPc = "parsed"
    /\ cOut.ok
    /\ Len(cTokens) = 3
    /\ ReadAsSwitch(1) /\ LongOptionsAt(1) # {}
    /\ IsSwitchToken(cTokens[2])
    /\ Len(cOut.args) = 2

\* the characters of the short cluster at position i: the token behind its
\* single dash
ClusterChars(i) == SubSeq(cTokens[i], 2, Len(cTokens[i]))

\* the specs of the subcommand with the short alias a
ShortSpecs(a) ==
    { get_arg_specs_for(cCmd)[k] :
        k \in { n \in 1..Len(get_arg_specs_for(cCmd)) :
                    get_arg_specs_for(cCmd)[n].short = a } }

\* a short cluster read as a switch whose characters are all short aliases of
\* the subcommand
ResolvedCluster(i) ==
    /\ ReadAsSwitch(i)
    /\ starts_with(cTokens[i], <<"-">>) /\ ~starts_with(cTokens[i], <<"-", "-">>)
    /\ Len(cTokens[i]) >= 2
    /\ \A c \in 1..Len(ClusterChars(i)) : ShortSpecs(ClusterChars(i)[c]) # {}

\* how many of the first c characters of the cluster are Options
OptionsUpTo(i, c) ==
    Cardinality({ d \in 1..c :
        \E spec \in ShortSpecs(ClusterChars(i)[d]) : spec.kind = "Option" })

\* the Arg of character c of the cluster when its Option value is the token
\* at position valueAt
ClusterArg(i, c, valueAt) ==
    LET spec == CHOOSE sp \in ShortSpecs(ClusterChars(i)[c]) : TRUE
    IN IF spec.kind = "Flag" THEN ArgFlag(spec.name)
       ELSE ArgOption(spec.name, cTokens[valueAt])

\* C12 as stated: a short cluster is resolved character by character from left
\* to right, one Arg per character in that order, and every Option character
\* takes as its value the token right after the whole cluster token.
C12_AsStated ==
    cPc = "parsed" /\ cOut.ok =>
        \A i \in 1..Len(cTokens) :
            ResolvedCluster(i) =>
                LET before == parse_args(SubSeq(cTokens, 1, i - 1), get_arg_specs_for(cCmd))
                IN \A c \in 1..Len(ClusterChars(i)) :
                      /\ Len(cOut.args) >= Len(before.args) + c
                      /\ cOut.args[Len(before.args) + c] = ClusterArg(i, c, i + 1)

\* C12 as the code has it: a short cluster is resolved character by character
\* from left to right, one Arg per character in that order; the j-th Option
\* character of the cluster takes the j-th token after the cluster token,
\* verbatim, none of these tokens is parsed again, and the parse fails with a
\* missing-value error when there are fewer tokens after the cluster than
\* Option characters in it.
C12_ClusterValues ==
    cPc = "parsed" =>
        \A i \in 1..Len(cTokens) :
            ResolvedCluster(i) =>
                LET specs == get_arg_specs_for(cCmd)
                    chars == ClusterChars(i)
                    n == OptionsUpTo(i, Len(chars))
                    before == parse_args(SubSeq(cTokens, 1, i - 1), specs)
                    after == parse_args(SubSeq(cTokens, i + n + 1, Len(cTokens)), specs)
                    expected == [c \in 1..Len(chars) |->
                                    ClusterArg(i, c, i + OptionsUpTo(i, c))]
                IN IF i + n > Len(cTokens)
                   THEN ~cOut.ok /\ cOut.err = "Missing"
                   ELSE /\ before.ok
                        /\ \A j \in 1..n : i + j \in cOut.used
                        /\ Len(cOut.args) >= Len(before.args) + Len(chars)
                        /\ SubSeq(cOut.args, Len(before.args) + 1,
                                  Len(before.args) + Len(chars)) = expected
                        /\ cOut.ok = after.ok
                        /\ cOut.ok => cOut.args = before.args \o expected \o after.args
                        /\ ~cOut.ok => cOut.err = after.err /\ cOut.arg = after.arg

\* a cluster of two Options that take the two different tokens after it
C12_Witness ==
    /\ cPc = "parsed"
    /\ cOut.ok
    /\ \E i \in 1..Len(cTokens) :
          /\ ResolvedCluster(i)
          /\ OptionsUpTo(i, Len(ClusterChars(i))) = 2
          /\ cTokens[i + 1] # cTokens[i + 2]

(***************************************************************************)
(* Claims about edit as an invocation on the store.                        *)
(***************************************************************************)
\* the steps the last invocation of edit ran
StepsRun == { last.out.calls[k] : k \in 1..Len(last.out.calls) }

RaceStores ==
    LET one == add(<<>>, <<TagShort, TagW, DescA>>,
                   <<<<"a", "1", "b", "2", "c", "3", "d", "4">>>>).mem
        two == add(one, <<TagShort, TagW, DescA>>,
                   <<<<"7", "f", "0", "0", "a", "1", "b", "2">>>>).mem
    IN {<<>>, one, two}

\* the handlers a process can run
RaceOps == {"add", "rm", "done", "edit"}

\* the invocations of one handler a process can be, as [op, args, out] on the
\* list it loaded
RaceInvocations(loaded, op) ==
    CASE op = "add" ->
           {[op |-> op, args |-> <<TagShort, TagW, DescB>>,
             out |-> add(loaded, <<TagShort, TagW, DescB>>, <<h>>)] : h \in HexRenderings}
      [] op = "rm" ->
           {[op |-> op, args |-> <<pr>>, out |-> rm(loaded, <<pr>>)] : pr \in Prefixes}
      [] op = "done" ->
           {[op |-> op, args |-> <<pr>>, out |-> done(loaded, <<pr>>)] : pr \in Prefixes}
      [] op = "edit" ->
           {[op |-> op, args |-> <<editor>>, out |-> edit(loaded, editor, edited)] :
               editor \in EditorOutcomes,
               edited \in {Serialize(loaded)}
                          \cup {RenderScript(<<l>>) : l \in StoreScriptLines}}

\* load_from_file at the start of the handler
RLoad(p) ==
    /\ rPc[p] = "start"
    /\ rPc' = [rPc EXCEPT ![p] = "loaded"]
    /\ rLast' = [rLast EXCEPT ![p] = [op |-> "none", args |-> <<>>, pre |-> file,
                                      out |-> NoOutcome]]
    /\ UNCHANGED <<file, last, rWrites, editVars, cliVars>>

\* a handler that works on the file as it is when it runs, not on what the
\* process loaded
RRun_on_current_file(p) ==
    /\ rPc[p] = "loaded"
    /\ \E op \in RaceOps : \E inv \in RaceInvocations(file, op) :
          /\ file' = IF inv.out.wrote THEN inv.out.mem ELSE file
          /\ rWrites' = IF inv.out.wrote THEN Append(rWrites, p) ELSE rWrites
          /\ rLast' = [rLast EXCEPT ![p] = [op |-> inv.op, args |-> inv.args,
                                            pre |-> rLast[p].pre, out |-> inv.out]]
    /\ rPc' = [rPc EXCEPT ![p] = "exited"]
    /\ UNCHANGED <<last, editVars, cliVars>>

\* the rest of the handler on the list the process loaded: the operation in
\* memory, save_to_file if the handler reaches it, and the exit
RRun(p) ==
    /\ rPc[p] = "loaded"
    /\ \E op \in RaceOps : \E inv \in RaceInvocations(rLast[p].pre, op) :
          /\ file' = IF inv.out.wrote THEN inv.out.mem ELSE file
          /\ rWrites' = IF inv.out.wrote THEN Append(rWrites, p) ELSE rWrites
          /\ rLast' = [rLast EXCEPT ![p] = [op |-> inv.op, args |-> inv.args,
                                            pre |-> rLast[p].pre, out |-> inv.out]]
    /\ rPc' = [rPc EXCEPT ![p] = "exited"]
    /\ UNCHANGED <<last, editVars, cliVars>>

RInit ==
    /\ file \in RaceStores
    /\ last = NoInvocation
    /\ rPc = [p \in Procs |-> "start"]
    /\ rLast = [p \in Procs |-> NoInvocation]
    /\ rWrites = <<>>

InitRace == RInit /\ EditIdle /\ CliIdle

NextRace == \E p \in Procs : RLoad(p) \/ RRun(p)

SpecRace == InitRace /\ [][NextRace]_vars

\* the items of a list
ItemsOf(items) == { items[k] : k \in 1..Len(items) }

\* what process q did to the list it loaded is not in the file: an item it
\* added or completed is missing, or an item it removed or completed is there
\* as it was before
EffectLost(q) ==
    \/ \E x \in ItemsOf(rLast[q].out.mem) \ ItemsOf(rLast[q].pre) : x \notin ItemsOf(file)
    \/ \E x \in ItemsOf(rLast[q].pre) \ ItemsOf(rLast[q].out.mem) : x \in ItemsOf(file)

\* C14: with two invocations running at the same time there is an interleaving
\* in which both report success and the persisted list holds the effect of the
\* last writer only, unnoticed by both. Whatever the interleaving, the file is
\* the list the last writer had in memory, made from what that process loaded
\* alone, and a process that loaded before the other saved returns the outcome
\* it returns when it runs alone on what it loaded.
C14_LastWriterWins ==
    /\ rWrites # <<>> =>
          /\ file = rLast[rWrites[Len(rWrites)]].out.mem
          /\ rLast[rWrites[Len(rWrites)]].out.mem
                \in { inv.out.mem :
                        inv \in RaceInvocations(rLast[rWrites[Len(rWrites)]].pre,
                                                rLast[rWrites[Len(rWrites)]].op) }
    /\ \A p \in Procs :
          rPc[p] = "exited" =>
              \E inv \in RaceInvocations(rLast[p].pre, rLast[p].op) :
                  /\ inv.args = rLast[p].args
                  /\ inv.out = rLast[p].out

\* both processes loaded the same list, both saved and returned Ok, and what
\* the first writer did is lost
C14_Witness ==
    /\ \A p \in Procs : rPc[p] = "exited" /\ rLast[p].out.ok /\ rLast[p].out.wrote
    /\ Len(rWrites) = 2
    /\ rLast[1].pre = rLast[2].pre
    /\ rLast[rWrites[1]].out.mem # rLast[rWrites[1]].pre
    /\ EffectLost(rWrites[1])
    /\ file = rLast[rWrites[2]].out.mem

====
